---- MODULE Spec2Model ----
(***************************************************************************)
(* Model of sinter_operator.py: the RunStatus classifier, the Sinter API   *)
(* client (one HTTP request per operation), the bounded-retry fetch, the   *)
(* poll-until-terminal loop, run_job, and the SinterOperator adapter.      *)
(*                                                                         *)
(* The remote service is the environment: every HTTP request draws its     *)
(* reply from a small set.  The log records, in program order, every HTTP  *)
(* request the program issues and every sleep it takes.                    *)
(***************************************************************************)
EXTENDS Integers, Sequences, FiniteSets, TLC

\* ------------------------------------------------------------------ bounds
\* longest definitions listing the service returns
MaxDefs == 2
\* poll iterations (30 s sleeps) explored in block_until_complete
MaxPolls == 2
\* largest max_tries a direct caller passes to try_get_job_run
MaxTriesArg == 4
\* status codes 0..MaxStatus are classified
MaxStatus == 40

\* --------------------------------------------------------------- RunStatus
queued == 1
dequeued == 2
running == 3
success == 10
error == 20
cancelled == 30

LOOKUP ==
    (queued :> "Queued") @@ (dequeued :> "Queued") @@ (running :> "Running")
    @@ (success :> "Success") @@ (error :> "Error") @@ (cancelled :> "Cancelled")

\* variant: a plain LOOKUP[status], which fails on a code outside the table
lookupNoDefault(status) ==
    IF status \in DOMAIN LOOKUP THEN LOOKUP[status] ELSE "KeyError"

\* dict.get(status, 'Unknown')
lookup(status) ==
    IF status \in DOMAIN LOOKUP THEN LOOKUP[status] ELSE "Unknown"

\* ------------------------------------------------------------ values
None == "None"
Tokens == {"tok"}
AccountIds == {"acct"}
ProjectIds == {"proj"}
JobNames == {"a"}
RunIds == {"r1", "r2"}

\* the status codes the service reports for a run: every known code and
\* one the classifier does not know
RunCodes == {queued, dequeued, running, success, error, cancelled, 0}

\* str.format of a small non-negative integer
Str(n) ==
    CASE n = 0 -> "0" [] n = 1 -> "1" [] n = 2 -> "2" [] n = 3 -> "3"
      [] n = 4 -> "4" [] n = 5 -> "5" [] n = 6 -> "6" [] OTHER -> "many"

\* ------------------------------------------------------------ HTTP bodies
\* A raw body is either the text of a JSON document or text that is not JSON.
JsonText(v) == [kind |-> "json", value |-> v]
PlainText(s) == [kind |-> "plain", value |-> s]

\* outcomes of a call: a returned value or a raised exception
NoOutcome == [kind |-> "none"]
Return(v) == [kind |-> "return", value |-> v]
Raise(type, args) == [kind |-> "raise", type |-> type, args |-> args]

\* json.loads(response.content)
json_loads(content) ==
    IF content.kind = "json" THEN Return(content.value)
    ELSE Raise("ValueError", <<>>)

\* a reply of the service, or a transport failure (requests raises)
Reply(code, content) == [delivered |-> TRUE, status_code |-> code, content |-> content]
TransportFailure == [delivered |-> FALSE, status_code |-> 0, content |-> PlainText("")]
NoResponse == [delivered |-> FALSE, status_code |-> -1, content |-> PlainText("")]

OK == 200
CREATED == 201
HttpCodes == {OK, CREATED, 500}

\* the replies to a request whose well-formed payloads are `payloads` and
\* whose success code is `expected`: every payload with that code, one payload
\* with the other success code, a body that is not JSON with every code, and
\* no reply at all
Replies(payloads, expected) ==
    {Reply(expected, JsonText(p)) : p \in payloads}
    \cup {Reply(c, JsonText(CHOOSE p \in payloads : TRUE)) : c \in {OK, CREATED} \ {expected}}
    \cup {Reply(c, PlainText("oops")) : c \in HttpCodes}
    \cup {TransportFailure}

\* sequences over S of length 0..n
RECURSIVE SeqsUpTo(_, _)
SeqsUpTo(S, n) ==
    IF n = 0 THEN {<<>>}
    ELSE LET shorter == SeqsUpTo(S, n - 1)
         IN shorter \cup {Append(s, x) : s \in {t \in shorter : Len(t) = n - 1}, x \in S}

\* the job definitions of the project: two share the name the operator asks for
Definitions ==
    {[id |-> "d1", name |-> "a"], [id |-> "d2", name |-> "a"], [id |-> "d3", name |-> "b"]}
Listings == SeqsUpTo(Definitions, MaxDefs)
TriggerPayloads == [id : RunIds]
RunPayloads(job_id) == [id : {job_id}, status : RunCodes]
ProjectPayloads == {[data |-> <<>>], [data |-> <<"proj">>]}

\* ------------------------------------------------------------ requests
api_base == "https://cloud.getdbt.com/api/v1"

\* a log entry: the request, and the exception type the operation raised on
\* its response (None when it returned)
Request(method, scheme, token, op, suffix, r) ==
    [ev |-> "request", method |-> method, op |-> op,
     url |-> <<api_base>> \o suffix, auth |-> <<scheme, token>>,
     raised |-> IF r.kind = "raise" THEN r.type ELSE None]
Sleep(secs) == [ev |-> "sleep", secs |-> secs]

\* variant: any 2xx code accepted
getAny2xx(response) ==
    IF ~response.delivered THEN Raise("ConnectionError", <<>>)
    ELSE IF response.status_code \in {OK, CREATED} THEN json_loads(response.content)
    ELSE Raise("RuntimeError", <<response.content>>)

\* Sinter._get after requests.get answered `response`
_get(response) ==
    IF ~response.delivered THEN Raise("ConnectionError", <<>>)
    ELSE IF response.status_code = OK THEN json_loads(response.content)
    ELSE Raise("RuntimeError", <<response.content>>)

\* Sinter._post after requests.post answered `response`
_post(response) ==
    IF ~response.delivered THEN Raise("ConnectionError", <<>>)
    ELSE IF response.status_code = CREATED THEN json_loads(response.content)
    ELSE Raise("RuntimeError", <<response.content>>)

\* r['data'] of a returned body
data(r) == IF r.kind = "return" THEN Return(r.value.data) ELSE r

url_list_projects(account_id) == <<"accounts", account_id, "projects">>
url_get_project(account_id, project_id) == <<"accounts", account_id, "projects", project_id>>
url_list_job_definitions(account_id, project_id) ==
    <<"accounts", account_id, "projects", project_id, "definitions">>
\* variant: the project id formatted where the run id belongs
url_get_job_run_swapped(account_id, project_id, job_id) ==
    <<"accounts", account_id, "projects", project_id, "runs", project_id>>
url_get_job_run(account_id, project_id, job_id) ==
    <<"accounts", account_id, "projects", project_id, "runs", job_id>>
url_trigger_job_run(account_id, project_id, definition_id) ==
    <<"accounts", account_id, "projects", project_id, "definitions", definition_id, "runs">>

\* ------------------------------------------------------------ state
VARIABLES
    pc,           \* position of the program
    entry,        \* the entry point the caller invoked
    kwargs,       \* arguments given to SinterOperator.__init__
    self,         \* the operator's stored fields
    sinter,       \* the Sinter client: account_id, api_token
    log,          \* HTTP requests issued and sleeps taken, in order
    response,     \* the last HTTP response
    project_id,   \* run_job / try_get_job_run argument
    job_name,     \* run_job argument
    definitions,  \* run_job: the decoded listing
    job_defs,     \* run_job: the definitions named job_name
    job_id,       \* run_job: id of the triggered run; try_get_job_run argument
    job,          \* the run payload fetched last
    status_name,  \* the last classification
    i,            \* try_get_job_run: loop index
    max_tries,    \* try_get_job_run: attempts allowed
    polls,        \* block_until_complete: 30 s sleeps taken
    calls,        \* API client operations invoked
    out           \* outcome of each call: api, try, buc, run_job, execute, init, lookup

vars == <<pc, entry, kwargs, self, sinter, log, response, project_id, job_name,
          definitions, job_defs, job_id, job, status_name, i, max_tries, polls, calls, out>>

NoOut ==
    [api |-> NoOutcome, try |-> NoOutcome, buc |-> NoOutcome, run_job |-> NoOutcome,
     execute |-> NoOutcome, init |-> NoOutcome, lookup |-> NoOutcome]

NoFields == [token |-> None, account_id |-> None, project_id |-> None, job_name |-> None]

Init ==
    /\ pc = "start"
    /\ entry = None
    /\ kwargs = NoFields
    /\ self = NoFields
    /\ sinter = [account_id |-> None, api_token |-> None]
    /\ log = <<>>
    /\ response = NoResponse
    /\ project_id = None
    /\ job_name = None
    /\ definitions = <<>>
    /\ job_defs = <<>>
    /\ job_id = None
    /\ job = [id |-> None, status |-> -1]
    /\ status_name = None
    /\ i = 0
    /\ max_tries = 0
    /\ polls = 0
    /\ calls = 0
    /\ out = NoOut

\* ------------------------------------------------------------ API client
\* Sinter.__init__
Sinter(account_id, api_token) == [account_id |-> account_id, api_token |-> api_token]

\* requests.get / requests.post: one request goes out, one response comes back
Http(client, method, scheme, op, suffix, reply, r) ==
    /\ log' = Append(log, Request(method, scheme, client.api_token, op, suffix, r))
    /\ response' = reply

\* Sinter.list_projects, called on a fresh client
list_projects ==
    /\ pc = "start"
    /\ \E account_id \in AccountIds, token \in Tokens, reply \in Replies(ProjectPayloads, OK) :
         LET client == Sinter(account_id, token)
         IN /\ sinter' = client
            /\ Http(client, "GET", "Token", "list_projects", url_list_projects(account_id), reply,
                    data(_get(reply)))
            /\ out' = [out EXCEPT !.api = data(_get(reply))]
    /\ calls' = calls + 1
    /\ entry' = "list_projects"
    /\ pc' = "done"
    /\ UNCHANGED <<kwargs, self, project_id, job_name, definitions, job_defs, job_id,
                   job, status_name, i, max_tries, polls>>

\* Sinter.get_project, called on a fresh client
get_project ==
    /\ pc = "start"
    /\ \E account_id \in AccountIds, token \in Tokens, p \in ProjectIds,
          reply \in Replies(ProjectPayloads, OK) :
         LET client == Sinter(account_id, token)
         IN /\ sinter' = client
            /\ project_id' = p
            /\ Http(client, "GET", "Token", "get_project", url_get_project(account_id, p), reply,
                    data(_get(reply)))
            /\ out' = [out EXCEPT !.api = data(_get(reply))]
    /\ calls' = calls + 1
    /\ entry' = "get_project"
    /\ pc' = "done"
    /\ UNCHANGED <<kwargs, self, job_name, definitions, job_defs, job_id,
                   job, status_name, i, max_tries, polls>>

\* RunStatus.lookup, called with any status code
RunStatus_lookup ==
    /\ pc = "start"
    /\ \E status \in 0..MaxStatus :
         /\ job' = [id |-> None, status |-> status]
         /\ status_name' = lookup(status)
         /\ out' = [out EXCEPT !.lookup = Return(lookup(status))]
    /\ entry' = "lookup"
    /\ pc' = "done"
    /\ UNCHANGED <<kwargs, self, sinter, log, response, project_id, job_name, definitions,
                   job_defs, job_id, i, max_tries, polls, calls>>

\* ------------------------------------------------------------ SinterOperator
\* variant: the job name is not checked
init_checks_no_job_name(token, account_id, p, name) ==
    IF token = None THEN Raise("AirflowException", <<"No valid Sinter token was supplied.">>)
    ELSE IF account_id = None
         THEN Raise("AirflowException", <<"No valid account id was supplied.">>)
    ELSE IF p = None THEN Raise("AirflowException", <<"No valid project id was supplied.">>)
    ELSE Return(None)

\* the checks of SinterOperator.__init__
init_checks(token, account_id, p, name) ==
    IF token = None THEN Raise("AirflowException", <<"No valid Sinter token was supplied.">>)
    ELSE IF account_id = None
         THEN Raise("AirflowException", <<"No valid account id was supplied.">>)
    ELSE IF p = None THEN Raise("AirflowException", <<"No valid project id was supplied.">>)
    ELSE IF name = None THEN Raise("AirflowException", <<"No job name was supplied.">>)
    ELSE Return(None)

\* SinterOperator.__init__
SinterOperator_init ==
    /\ pc = "start"
    /\ \E token \in Tokens \cup {None}, account_id \in AccountIds \cup {None},
          p \in ProjectIds \cup {None}, name \in JobNames \cup {None} :
         LET r == init_checks(token, account_id, p, name)
             given == [token |-> token, account_id |-> account_id,
                       project_id |-> p, job_name |-> name]
         IN /\ kwargs' = given
            /\ out' = [out EXCEPT !.init = r]
            /\ IF r.kind = "return"
               THEN self' = given /\ pc' = "constructed"
               ELSE self' = self /\ pc' = "done"
    /\ entry' = "operator"
    /\ UNCHANGED <<sinter, log, response, project_id, job_name, definitions, job_defs,
                   job_id, job, status_name, i, max_tries, polls, calls>>

\* SinterOperator.execute up to the call of run_job
execute ==
    /\ pc = "constructed"
    /\ sinter' = Sinter(self.account_id, self.token)
    /\ project_id' = self.project_id
    /\ job_name' = self.job_name
    /\ pc' = "run_job"
    /\ UNCHANGED <<entry, kwargs, self, log, response, definitions, job_defs, job_id, job,
                   status_name, i, max_tries, polls, calls, out>>

\* ------------------------------------------------------------ run_job
\* variant: except Exception
IsAnyError(r) == r.kind = "raise"

\* AirflowException and RuntimeError are unrelated classes: an except clause
\* for RuntimeError catches only RuntimeError
IsRuntimeError(r) == r.kind = "raise" /\ r.type = "RuntimeError"

\* variant: the comparison inverted
matchingOthers(defs, name) == SelectSeq(defs, LAMBDA d : d.name # name)

\* [d for d in definitions if d['name'] == job_name]
matching(defs, name) == SelectSeq(defs, LAMBDA d : d.name = name)

\* variant: any match will do
at_least_one(found) == Len(found) >= 1

\* len(job_defs) != 1 raises
exactly_one(found) == Len(found) = 1

\* run_job, lines 107-114: list the definitions and pick the one named job_name
list_job_definitions ==
    /\ pc = "run_job"
    /\ \E reply \in Replies(Listings, OK) :
         LET r == _get(reply)
             found == matching(r.value, job_name)
             lookup_error ==
                 Raise("AirflowException", <<Str(Len(found)), " jobs found for ", job_name>>)
         IN /\ Http(sinter, "GET", "Token", "list_job_definitions",
                    url_list_job_definitions(sinter.account_id, project_id), reply, r)
            /\ IF r.kind # "return"
               THEN /\ out' = [out EXCEPT !.api = r, !.run_job = r]
                    /\ pc' = "run_job_exit"
                    /\ UNCHANGED <<definitions, job_defs>>
               ELSE /\ definitions' = r.value
                    /\ job_defs' = found
                    /\ IF ~exactly_one(found)
                       THEN /\ out' = [out EXCEPT !.api = r, !.run_job = lookup_error]
                            /\ pc' = "run_job_exit"
                       ELSE /\ out' = [out EXCEPT !.api = r]
                            /\ pc' = "trigger"
    /\ calls' = calls + 1
    /\ UNCHANGED <<entry, kwargs, self, sinter, project_id, job_name, job_id, job,
                   status_name, i, max_tries, polls>>

\* max_tries=3, the default block_until_complete leaves in place
default_max_tries == 3

\* run_job, lines 114-118: trigger the definition and enter the poll loop
trigger_job_run ==
    /\ pc = "trigger"
    /\ \E reply \in Replies(TriggerPayloads, CREATED) :
         LET job_def == job_defs[1]
             r == _post(reply)
         IN /\ Http(sinter, "POST", "token", "trigger_job_run",
                    url_trigger_job_run(sinter.account_id, project_id, job_def.id), reply, r)
            /\ IF r.kind # "return"
               THEN /\ out' = [out EXCEPT !.api = r, !.run_job = r]
                    /\ pc' = "run_job_exit"
                    /\ UNCHANGED <<job_id, i, max_tries>>
               ELSE /\ out' = [out EXCEPT !.api = r]
                    /\ job_id' = r.value.id
                    /\ i' = 0
                    /\ max_tries' = default_max_tries
                    /\ pc' = "fetch"
    /\ calls' = calls + 1
    /\ UNCHANGED <<entry, kwargs, self, sinter, project_id, job_name, definitions, job_defs,
                   job, status_name, polls>>

\* ------------------------------------------------------------ try_get_job_run
\* try_get_job_run called directly, with any max_tries
try_get_job_run ==
    /\ pc = "start"
    /\ \E account_id \in AccountIds, token \in Tokens, p \in ProjectIds,
          id \in RunIds, n \in 0..MaxTriesArg :
         /\ sinter' = Sinter(account_id, token)
         /\ project_id' = p
         /\ job_id' = id
         /\ max_tries' = n
    /\ i' = 0
    /\ entry' = "try_get_job_run"
    /\ pc' = "fetch"
    /\ UNCHANGED <<kwargs, self, log, response, job_name, definitions, job_defs, job,
                   status_name, polls, calls, out>>

\* variant: one iteration too many
in_range_inclusive(k, n) == k <= n

\* for i in range(max_tries): is there another iteration?
in_range(k, n) == k < n

\* an exception leaves try_get_job_run: it passes through block_until_complete
\* and run_job, neither of which catches anything
propagate(o, r) ==
    IF entry = "operator" THEN [o EXCEPT !.try = r, !.buc = r, !.run_job = r]
    ELSE [o EXCEPT !.try = r]

\* try_get_job_run, lines 85-88: one attempt
get_job_run ==
    /\ pc = "fetch"
    /\ in_range(i, max_tries)
    /\ \E reply \in Replies(RunPayloads(job_id), OK) :
         LET r == _get(reply)
         IN /\ Http(sinter, "GET", "Token", "get_job_run",
                    url_get_job_run(sinter.account_id, project_id, job_id), reply, r)
            /\ IF r.kind = "return"
               THEN /\ job' = r.value
                    /\ out' = [out EXCEPT !.api = r, !.try = r]
                    /\ pc' = IF entry = "operator" THEN "classify" ELSE "done"
               ELSE IF IsRuntimeError(r)
               THEN /\ out' = [out EXCEPT !.api = r]
                    /\ pc' = "retry_sleep"
                    /\ job' = job
               ELSE /\ out' = propagate([out EXCEPT !.api = r], r)
                    /\ pc' = IF entry = "operator" THEN "run_job_exit" ELSE "done"
                    /\ job' = job
    /\ calls' = calls + 1
    /\ UNCHANGED <<entry, kwargs, self, sinter, project_id, job_name, definitions, job_defs,
                   job_id, status_name, i, max_tries, polls>>

retry_sleep_secs == 10

\* variant: no sleep once the last attempt has failed
retry_sleep_not_last ==
    /\ pc = "retry_sleep"
    /\ log' = IF in_range(i + 1, max_tries) THEN Append(log, Sleep(retry_sleep_secs)) ELSE log
    /\ i' = i + 1
    /\ pc' = "fetch"
    /\ UNCHANGED <<entry, kwargs, self, sinter, response, project_id, job_name, definitions,
                   job_defs, job_id, job, status_name, max_tries, polls, calls, out>>

\* try_get_job_run, lines 89-90: the sleep after a failed attempt
retry_sleep ==
    /\ pc = "retry_sleep"
    /\ log' = Append(log, Sleep(retry_sleep_secs))
    /\ i' = i + 1
    /\ pc' = "fetch"
    /\ UNCHANGED <<entry, kwargs, self, sinter, response, project_id, job_name, definitions,
                   job_defs, job_id, job, status_name, max_tries, polls, calls, out>>

\* "Too many failures ({}) while querying for job status".format(job_id)
too_many_failures(id) ==
    <<"Too many failures (", id, ") while querying for job status">>

\* try_get_job_run, line 92: the loop ran out
retries_exhausted ==
    /\ pc = "fetch"
    /\ ~in_range(i, max_tries)
    /\ out' = propagate(out, Raise("RuntimeError", too_many_failures(job_id)))
    /\ pc' = IF entry = "operator" THEN "run_job_exit" ELSE "done"
    /\ UNCHANGED <<entry, kwargs, self, sinter, log, response, project_id, job_name,
                   definitions, job_defs, job_id, job, status_name, i, max_tries, polls, calls>>

\* ------------------------------------------------------------ block_until_complete
\* variant: an unclassified status ends the loop too
terminalWithUnknown == {"Success", "Error", "Cancelled", "Unknown"}

\* variant: Cancelled forgotten
terminalNoCancelled == {"Success", "Error"}

\* if status_name in ['Success', 'Error', 'Cancelled']
terminal == {"Success", "Error", "Cancelled"}

\* block_until_complete, lines 98-103: classify the fetched payload
classify ==
    /\ pc = "classify"
    /\ status_name' = lookup(job.status)
    /\ IF status_name' \in terminal
       THEN /\ out' = [out EXCEPT !.buc = Return(job)]
            /\ pc' = "polled"
       ELSE /\ out' = out
            /\ pc' = "poll_sleep"
    /\ UNCHANGED <<entry, kwargs, self, sinter, log, response, project_id, job_name,
                   definitions, job_defs, job_id, job, i, max_tries, polls, calls>>

query_sleep == 30

\* variant: the attempts already used are carried into the next iteration
poll_sleep_shared_budget ==
    /\ pc = "poll_sleep"
    /\ polls < MaxPolls
    /\ log' = Append(log, Sleep(query_sleep))
    /\ polls' = polls + 1
    /\ pc' = "fetch"
    /\ UNCHANGED <<entry, kwargs, self, sinter, response, project_id, job_name, definitions,
                   job_defs, job_id, job, status_name, calls, out, i, max_tries>>

\* block_until_complete, line 104 and the next call of try_get_job_run
poll_sleep ==
    /\ pc = "poll_sleep"
    /\ polls < MaxPolls
    /\ log' = Append(log, Sleep(query_sleep))
    /\ polls' = polls + 1
    /\ i' = 0
    /\ max_tries' = default_max_tries
    /\ pc' = "fetch"
    /\ UNCHANGED <<entry, kwargs, self, sinter, response, project_id, job_name, definitions,
                   job_defs, job_id, job, status_name, calls, out>>

\* variant: a cancelled run counted as done
run_outcome_lenient(payload) ==
    LET name == lookup(payload.status)
    IN IF name \in {"Success", "Cancelled"} THEN Return(payload)
       ELSE Raise("AirflowException", <<"Run failed with status: ", name>>)

\* the outcome of run_job once block_until_complete returned `payload`
run_outcome(payload) ==
    LET name == lookup(payload.status)
    IN IF name = "Success" THEN Return(payload)
       ELSE Raise("AirflowException", <<"Run failed with status: ", name>>)

\* run_job, lines 118-124
run_job_result ==
    /\ pc = "polled"
    /\ status_name' = lookup(out.buc.value.status)
    /\ out' = [out EXCEPT !.run_job = run_outcome(out.buc.value)]
    /\ pc' = "run_job_exit"
    /\ UNCHANGED <<entry, kwargs, self, sinter, log, response, project_id, job_name,
                   definitions, job_defs, job_id, job, i, max_tries, polls, calls>>

\* variant: no except clause
translateNothing(r, name) == IF r.kind = "return" THEN Return(None) ELSE r

\* try: ... except RuntimeError as e: raise AirflowException(...)
translate(r, name) ==
    IF r.kind = "return" THEN Return(None)
    ELSE IF IsRuntimeError(r)
    THEN Raise("AirflowException", <<"Error while running job ", name, ": ", r.args>>)
    ELSE r

\* SinterOperator.execute, lines 172-174: run_job returned or raised
execute_exit ==
    /\ pc = "run_job_exit"
    /\ out' = [out EXCEPT !.execute = translate(out.run_job, self.job_name)]
    /\ pc' = "done"
    /\ UNCHANGED <<entry, kwargs, self, sinter, log, response, project_id, job_name,
                   definitions, job_defs, job_id, job, status_name, i, max_tries, polls, calls>>

Next ==
    \/ list_projects
    \/ get_project
    \/ RunStatus_lookup
    \/ SinterOperator_init
    \/ execute
    \/ list_job_definitions
    \/ trigger_job_run
    \/ try_get_job_run
    \/ get_job_run
    \/ retry_sleep
    \/ retries_exhausted
    \/ classify
    \/ poll_sleep
    \/ run_job_result
    \/ execute_exit

Spec == Init /\ [][Next]_vars

\* ------------------------------------------------------------ reading the log
IsRequest(e, op) == e.ev = "request" /\ e.op = op
IsSleep(e, secs) == e.ev = "sleep" /\ e.secs = secs
RequestIndexes == {k \in DOMAIN log : log[k].ev = "request"}
HasRequest(op) == \E k \in DOMAIN log : IsRequest(log[k], op)
LastRequest == log[CHOOSE k \in RequestIndexes : \A m \in RequestIndexes : m <= k]

\* the entries of the running (or last) call of try_get_job_run: everything
\* after the last entry that is neither a get-job-run request nor a 10 s sleep
CallStart ==
    LET before == {k \in DOMAIN log :
                      ~IsRequest(log[k], "get_job_run") /\ ~IsSleep(log[k], 10)}
    IN IF before = {} THEN 0 ELSE CHOOSE k \in before : \A m \in before : m <= k
Attempts == {k \in DOMAIN log : k > CallStart /\ log[k].ev = "request"}
RetrySleeps == {k \in DOMAIN log : k > CallStart /\ log[k].ev = "sleep"}

\* the last response was decoded: a 200 (201 for the trigger) with a JSON body
Decoded(code) ==
    response.delivered /\ response.status_code = code /\ response.content.kind = "json"

\* the definitions of a listing that are named `name`
Named(listing, name) == {k \in DOMAIN listing : listing[k].name = name}

RunJobOver == entry = "operator" /\ pc \in {"run_job_exit", "done"} /\ Len(log) >= 1

\* the last thing the program did was fetch a run whose status code is `code`
LastFetched(code) ==
    /\ log # <<>>
    /\ IsRequest(log[Len(log)], "get_job_run")
    /\ Decoded(200)
    /\ response.content.value.status = code

\* ------------------------------------------------------------ C1
\* C1: with exactly one definition named job_name in the listing, run_job
\* issues the trigger POST for that definition's id as its second request,
\* and when the last fetched run status is Success (code 10) it returns,
\* without raising, the payload of that last fetch.
C1_RunJobTriggersAndReturns ==
    entry = "operator" =>
      /\ (Len(log) = 1 /\ Decoded(200)
            /\ Cardinality(Named(response.content.value, job_name)) = 1)
         => pc = "trigger"
      /\ \A k \in DOMAIN log :
           IsRequest(log[k], "trigger_job_run") =>
             /\ k = 2
             /\ log[k].method = "POST"
             /\ Cardinality(Named(definitions, job_name)) = 1
             /\ \E d \in Named(definitions, job_name) :
                  log[k].url = <<api_base>> \o url_trigger_job_run(
                                   sinter.account_id, project_id, definitions[d].id)
      /\ (RunJobOver /\ LastFetched(10)) => out.run_job = Return(response.content.value)
      /\ out.run_job.kind = "return" => LastFetched(10)

\* a run that succeeded after at least one poll sleep, picked from a listing
\* of two definitions
C1_Witness ==
    /\ RunJobOver
    /\ out.run_job.kind = "return"
    /\ polls >= 1
    /\ Len(definitions) = 2
    /\ definitions[1].name # job_name

\* ------------------------------------------------------------ C2
\* C2: when the listing holds no definition or several definitions named
\* job_name, run_job raises, and the log holds no trigger POST and no
\* get-job-run request; a trigger or get-job-run request is in the log only
\* when the listing held exactly one.
C2_LookupErrorBeforeTrigger ==
    entry = "operator" =>
      /\ (Len(log) = 1 /\ Decoded(200)
            /\ Cardinality(Named(response.content.value, job_name)) # 1)
         => /\ pc \in {"run_job_exit", "done"}
            /\ out.run_job.kind = "raise"
            /\ out.run_job.type = "AirflowException"
      /\ (pc # "start" /\ Cardinality(Named(definitions, job_name)) # 1)
         => /\ ~HasRequest("trigger_job_run")
            /\ ~HasRequest("get_job_run")
            /\ \A k \in DOMAIN log : log[k].ev = "request" => log[k].method # "POST"

\* a listing with two definitions of the requested name made run_job raise
C2_Witness ==
    /\ RunJobOver
    /\ Cardinality(Named(definitions, job_name)) = 2
    /\ out.run_job.kind = "raise"
    /\ out.run_job.type = "AirflowException"
    /\ Len(log) = 1

\* ------------------------------------------------------------ C3
Exhausted == out.try.kind = "raise" /\ out.try.type = "RuntimeError"

\* C3: try_get_job_run never makes more than max_tries attempts, and it has
\* raised its retry-exhausted error only when exactly max_tries attempts were
\* made and each of them failed with a runtime error.
C3_RaisesAfterExactlyMaxTries ==
    /\ Cardinality(Attempts) <= max_tries
    /\ Exhausted =>
         /\ Cardinality(Attempts) = max_tries
         /\ \A k \in Attempts : log[k].raised = "RuntimeError"

\* a direct call with max_tries = 2 (not the default) ran out of attempts
C3_Witness ==
    /\ entry = "try_get_job_run"
    /\ max_tries = 2
    /\ Exhausted
    /\ Cardinality(Attempts) = 2

\* ------------------------------------------------------------ C4
\* C4: once a fetched status code is 10, 20 or 30, the next step of
\* block_until_complete returns that payload with nothing added to the log;
\* and whenever block_until_complete has returned, the last entry of the log
\* is the get-job-run request that fetched the returned payload.
C4_TerminalReturnsAtOnce ==
    [][ /\ (pc = "classify" /\ job.status \in {10, 20, 30})
           => (out'.buc = Return(job) /\ log' = log /\ pc' = "polled")
        /\ (out'.buc.kind = "return")
           => /\ log' # <<>>
              /\ IsRequest(log'[Len(log')], "get_job_run")
              /\ log'[Len(log')].raised = None
              /\ response'.content.kind = "json"
              /\ out'.buc.value = response'.content.value
      ]_vars

\* block_until_complete returned a cancelled run after one poll sleep
C4_Witness ==
    /\ out.buc.kind = "return"
    /\ out.buc.value.status = 30
    /\ polls >= 1

\* ------------------------------------------------------------ C5
\* C5: when the last fetched status is Error (20) or Cancelled (30), run_job
\* raises AirflowException, and the exception names that status.
C5_FailedRunRaisesWithStatus ==
    \A code \in {20, 30} :
      (RunJobOver /\ LastFetched(code)) =>
        /\ out.run_job.kind = "raise"
        /\ out.run_job.type = "AirflowException"
        /\ out.run_job.args[Len(out.run_job.args)]
             = (IF code = 20 THEN "Error" ELSE "Cancelled")

\* run_job raised for a run that ended in Error
C5_Witness ==
    /\ RunJobOver
    /\ LastFetched(20)
    /\ out.run_job.kind = "raise"
    /\ out.run_job.args = <<"Run failed with status: ", "Error">>

\* ------------------------------------------------------------ C6
\* the ways run_job fails that the operator must report to the host
LookupFailed ==
    /\ Len(log) = 1
    /\ Decoded(200)
    /\ Cardinality(Named(response.content.value, job_name)) # 1
ListOrTriggerFailed ==
    /\ Len(log) \in {1, 2}
    /\ LastRequest.op \in {"list_job_definitions", "trigger_job_run"}
    /\ LastRequest.raised = "RuntimeError"

\* C6: execute completes normally only if the last fetched run status is
\* Success; after a lookup error, a runtime error from the listing or the
\* trigger, retry exhaustion, or a run that ended Error or Cancelled, execute
\* raises AirflowException; a RuntimeError never leaves execute.
C6_ExecuteFailsUnlessSuccess ==
    (entry = "operator" /\ pc = "done" /\ out.init.kind = "return") =>
      /\ out.execute.kind \in {"return", "raise"}
      /\ out.execute.kind = "return" => (LastFetched(10) /\ out.run_job.kind = "return")
      /\ (LookupFailed \/ ListOrTriggerFailed \/ Exhausted
            \/ LastFetched(20) \/ LastFetched(30))
         => (out.execute.kind = "raise" /\ out.execute.type = "AirflowException")
      /\ ~(out.execute.kind = "raise" /\ out.execute.type = "RuntimeError")

\* polling ran out of attempts and execute reported it as AirflowException
C6_Witness ==
    /\ entry = "operator"
    /\ pc = "done"
    /\ Exhausted
    /\ out.run_job.kind = "raise"
    /\ out.run_job.type = "RuntimeError"
    /\ out.execute.kind = "raise"
    /\ out.execute.type = "AirflowException"

\* ------------------------------------------------------------ C7
\* C7: lookup returns Queued for 1 and 2, Running for 3, Success for 10,
\* Error for 20, Cancelled for 30 and Unknown for every other code; it always
\* returns, and always one of these six labels.
C7_LookupTable ==
    (entry = "lookup" /\ pc = "done") =>
      LET code == job.status
          label == out.lookup.value
      IN /\ out.lookup.kind = "return"
         /\ code \in {1, 2} => label = "Queued"
         /\ code = 3 => label = "Running"
         /\ code = 10 => label = "Success"
         /\ code = 20 => label = "Error"
         /\ code = 30 => label = "Cancelled"
         /\ code \notin {1, 2, 3, 10, 20, 30} => label = "Unknown"
         /\ label \in {"Queued", "Running", "Success", "Error", "Cancelled", "Unknown"}

\* a code above every known one was classified Unknown
C7_Witness ==
    /\ entry = "lookup"
    /\ pc = "done"
    /\ job.status = 31
    /\ out.lookup = Return("Unknown")

\* ------------------------------------------------------------ C8
\* C8: as many HTTP requests were issued as API operations were invoked (one
\* each); an operation returned only on a 200 response (201 for the trigger),
\* and what it returned is the decoded body (for list projects and get
\* project, the 'data' member of the decoded body); on a response with any
\* other status it raised a RuntimeError holding the raw body.
C8_OneRequestAndExpectedStatus ==
    /\ calls = Cardinality(RequestIndexes)
    /\ calls >= 1 =>
         LET req == LastRequest
             expected == IF req.op = "trigger_job_run" THEN 201 ELSE 200
             body == response.content
         IN /\ req.method = (IF req.op = "trigger_job_run" THEN "POST" ELSE "GET")
            /\ out.api.kind \in {"return", "raise"}
            /\ out.api.kind = "return" =>
                 /\ response.delivered
                 /\ response.status_code = expected
                 /\ body.kind = "json"
                 /\ out.api.value = (IF req.op \in {"list_projects", "get_project"}
                                     THEN body.value.data ELSE body.value)
            /\ (response.delivered /\ response.status_code # expected) =>
                 out.api = Raise("RuntimeError", <<body>>)

\* the trigger was answered 200 with a well-formed body and raised
C8_Witness ==
    /\ calls = 2
    /\ LastRequest.op = "trigger_job_run"
    /\ response.status_code = 200
    /\ response.content.kind = "json"
    /\ out.api = Raise("RuntimeError", <<response.content>>)

\* ------------------------------------------------------------ C9
\* C9: the retry-exhausted error names the job id and the number of attempts
\* that were made.
C9_ExhaustedErrorNamesIdAndCount ==
    Exhausted =>
      /\ \E k \in DOMAIN out.try.args : out.try.args[k] = job_id
      /\ \E k \in DOMAIN out.try.args : out.try.args[k] = Str(Cardinality(Attempts))

\* ------------------------------------------------------------ C10
Missing == \E f \in DOMAIN kwargs : kwargs[f] = None

\* C10: when one of token, account_id, project_id, job_name is None the
\* constructor raises AirflowException and no HTTP request is ever issued;
\* when all four are given it returns and the operator holds exactly them.
C10_ConstructionValidates ==
    entry = "operator" =>
      /\ Missing =>
           /\ out.init.kind = "raise"
           /\ out.init.type = "AirflowException"
           /\ pc = "done"
           /\ log = <<>>
           /\ calls = 0
      /\ ~Missing => (out.init.kind = "return" /\ self = kwargs)

\* only the job name was missing and construction failed
C10_Witness ==
    /\ entry = "operator"
    /\ kwargs.token # None
    /\ kwargs.account_id # None
    /\ kwargs.project_id # None
    /\ kwargs.job_name = None
    /\ out.init.kind = "raise"
    /\ pc = "done"

\* ------------------------------------------------------------ C11
\* C11: block_until_complete returns only a payload whose status code is 10,
\* 20 or 30; after fetching any other status it does not return: its next
\* step only moves to the poll sleep, the step after that is exactly one 30 s
\* sleep, and what follows a 30 s sleep in the log is a get-job-run request.
\* Every 30 s sleep in the log comes directly after a get-job-run request
\* that returned.  (The loop has no limit of its own; MaxPolls bounds only
\* how many iterations are explored.)
C11_NonTerminalSleepsAndRefetches ==
    [][ /\ out'.buc.kind = "return" => out'.buc.value.status \in {10, 20, 30}
        /\ (pc = "classify" /\ job.status \notin {10, 20, 30})
           => (pc' = "poll_sleep" /\ log' = log /\ out'.buc.kind = "none")
        /\ pc = "poll_sleep"
           => (log' = Append(log, Sleep(30)) /\ pc' = "fetch" /\ i' = 0 /\ max_tries' = 3)
        /\ \A k \in DOMAIN log' :
             IsSleep(log'[k], 30) =>
               /\ k > 1
               /\ IsRequest(log'[k - 1], "get_job_run")
               /\ log'[k - 1].raised = None
               /\ k < Len(log') => IsRequest(log'[k + 1], "get_job_run")
      ]_vars

\* the run was still unclassified (code 0) after every explored poll sleep
C11_Witness ==
    /\ pc = "poll_sleep"
    /\ polls >= 2
    /\ job.status = 0
    /\ status_name = "Unknown"
    /\ out.buc.kind = "none"

\* ------------------------------------------------------------ C12
PollingStarted ==
    /\ entry = "operator"
    /\ Len(log) >= 2
    /\ IsRequest(log[2], "trigger_job_run")
    /\ log[2].raised = None
PollingOver == PollingStarted /\ pc \in {"polled", "run_job_exit", "done"}

EndedTerminal ==
    /\ out.buc.kind = "return"
    /\ LastFetched(10) \/ LastFetched(20) \/ LastFetched(30)
EndedExhausted ==
    /\ out.buc.kind = "raise"
    /\ Exhausted
    /\ Cardinality(Attempts) = 3
    /\ \A k \in Attempts : log[k].raised = "RuntimeError"
EndedOtherError ==
    /\ out.buc.kind = "raise"
    /\ out.try.kind = "raise"
    /\ out.try.type \in {"ValueError", "ConnectionError"}
    /\ IsRequest(log[Len(log)], "get_job_run")
    /\ log[Len(log)].raised = out.try.type

C13_RequestOrder ==
    [][ entry' = "operator" =>
          /\ \A k \in DOMAIN log' :
               log'[k].ev = "request" =>
                 /\ IsRequest(log'[k], "list_job_definitions") <=> k = 1
                 /\ log'[k].method = "POST" <=> IsRequest(log'[k], "trigger_job_run")
                 /\ IsRequest(log'[k], "trigger_job_run") => k = 2
                 /\ log'[k].method \in {"GET", "POST"}
                 /\ IsRequest(log'[k], "get_job_run") =>
                      /\ k >= 3
                      /\ log'[1].raised = None
                      /\ IsRequest(log'[2], "trigger_job_run")
                      /\ log'[2].raised = None
                      /\ log'[k].url = <<api_base, "accounts", sinter'.account_id, "projects",
                                         project_id', "runs", job_id'>>
          /\ (pc = "trigger" /\ pc' = "fetch")
             => (response'.content.kind = "json" /\ job_id' = response'.content.value.id)
          /\ (pc \notin {"start", "trigger"}) => job_id' = job_id
          /\ (Len(log') >= 1 /\ log'[Len(log')].ev = "request"
                /\ log'[Len(log')].op \in {"list_job_definitions", "trigger_job_run"}
                /\ log'[Len(log')].raised # None)
             => pc' \in {"run_job_exit", "done"}
      ]_vars

\* run r2 was triggered and fetched at least twice
C13_Witness ==
    /\ entry = "operator"
    /\ job_id = "r2"
    /\ polls >= 1
    /\ Cardinality({k \in DOMAIN log : IsRequest(log[k], "get_job_run")}) >= 2

\* ------------------------------------------------------------ C14
\* the get-job-run requests of the whole run that raised RuntimeError
FailedFetches ==
    {k \in DOMAIN log : IsRequest(log[k], "get_job_run") /\ log[k].raised = "RuntimeError"}

\* C14: every call of try_get_job_run from block_until_complete starts with
\* i = 0 and max_tries = 3; polling is aborted by exhaustion only when the
\* three requests of the current iteration, the last three of the log, all
\* failed; failures spread over iterations, each iteration ending in a
\* successful attempt, do not abort run_job however many they are.
C14_BudgetPerIteration ==
    [][ entry' = "operator" =>
          /\ (pc' = "fetch" /\ pc \in {"trigger", "poll_sleep"})
             => (i' = 0 /\ max_tries' = 3)
          /\ (out'.try.kind = "raise" /\ out'.try.type = "RuntimeError") =>
               /\ Len(log') >= 6
               /\ \A d \in 0..2 :
                    /\ IsSleep(log'[Len(log') - 2 * d], 10)
                    /\ IsRequest(log'[Len(log') - 2 * d - 1], "get_job_run")
                    /\ log'[Len(log') - 2 * d - 1].raised = "RuntimeError"
               /\ ~IsSleep(log'[Len(log') - 6], 10)
          /\ (pc' = "classify" /\ pc = "fetch") => out'.run_job.kind = "none"
      ]_vars

\* run_job returned although four fetches had failed, two in each of two
\* iterations
C14_Witness ==
    /\ RunJobOver
    /\ out.run_job.kind = "return"
    /\ Cardinality(FailedFetches) >= 4

\* ------------------------------------------------------------ C15
\* C15: in the log a 10 s sleep comes directly after a get-job-run request
\* that raised RuntimeError, and nowhere else; such a request is followed by
\* exactly one 10 s sleep (or the program is about to take it).  A call that
\* returned made k requests (1 <= k <= max_tries) and took k - 1 sleeps, its
\* last log entry is the request whose payload it returned; a call that ran
\* out of attempts made max_tries requests and took max_tries sleeps, the
\* last of them after the last failed request.
C15_SleepAfterEachFailure ==
    /\ \A k \in DOMAIN log :
         /\ IsSleep(log[k], 10) =>
              /\ k > 1
              /\ IsRequest(log[k - 1], "get_job_run")
              /\ log[k - 1].raised = "RuntimeError"
         /\ (IsRequest(log[k], "get_job_run") /\ log[k].raised = "RuntimeError") =>
              IF k = Len(log) THEN pc = "retry_sleep" ELSE IsSleep(log[k + 1], 10)
         /\ log[k].ev = "sleep" => log[k].secs \in {10, 30}
    /\ pc = "retry_sleep" =>
         (IsRequest(log[Len(log)], "get_job_run") /\ log[Len(log)].raised = "RuntimeError")
    /\ (entry = "try_get_job_run" /\ pc = "done" /\ out.try.kind = "return") =>
         /\ Cardinality(Attempts) \in 1..max_tries
         /\ Cardinality(RetrySleeps) = Cardinality(Attempts) - 1
         /\ IsRequest(log[Len(log)], "get_job_run")
         /\ log[Len(log)].raised = None
         /\ Decoded(200)
         /\ out.try.value = response.content.value
    /\ (pc = "classify") =>
         /\ Cardinality(Attempts) \in 1..max_tries
         /\ Cardinality(RetrySleeps) = Cardinality(Attempts) - 1
         /\ IsRequest(log[Len(log)], "get_job_run")
         /\ job = response.content.value
    /\ Exhausted =>
         /\ Cardinality(Attempts) = max_tries
         /\ Cardinality(RetrySleeps) = max_tries
         /\ max_tries > 0 => IsSleep(log[Len(log)], 10)

\* a direct call with max_tries = 4 returned on its third attempt
C15_Witness ==
    /\ entry = "try_get_job_run"
    /\ pc = "done"
    /\ max_tries = 4
    /\ out.try.kind = "return"
    /\ Cardinality(Attempts) = 3
    /\ Cardinality(RetrySleeps) = 2

\* ------------------------------------------------------------ C16
\* the last log entry is a get-job-run request that raised something else
\* than RuntimeError
OtherErrorFetched ==
    /\ log # <<>>
    /\ IsRequest(log[Len(log)], "get_job_run")
    /\ log[Len(log)].raised \in {"ValueError", "ConnectionError"}

\* C16: a get-job-run request that raises an error other than RuntimeError
\* is the last entry of the log for good: no sleep and no request follows,
\* try_get_job_run is left with that error at once, and execute ends with
\* that same error, not with AirflowException; a request that raised
\* RuntimeError is never the end of try_get_job_run.
C16_OtherErrorsEscape ==
    /\ \A k \in DOMAIN log :
         (IsRequest(log[k], "get_job_run") /\ log[k].raised \in {"ValueError", "ConnectionError"})
           => k = Len(log)
    /\ OtherErrorFetched =>
         /\ pc \in {"run_job_exit", "done"}
         /\ out.try = Raise(log[Len(log)].raised, <<>>)
         /\ entry = "operator" => out.run_job = out.try
         /\ (entry = "operator" /\ pc = "done") => out.execute = out.try
    /\ (out.execute.kind = "raise" /\ out.execute.type = "AirflowException"
          /\ out.run_job.type # "AirflowException")
         => (out.run_job.type = "RuntimeError" /\ LastRequest.raised = "RuntimeError")

\* the second attempt of the second iteration got no response, and execute
\* ended with ConnectionError
C16_Witness ==
    /\ entry = "operator"
    /\ pc = "done"
    /\ OtherErrorFetched
    /\ polls = 1
    /\ Cardinality(Attempts) = 2
    /\ out.execute.kind = "raise"
    /\ out.execute.type = "ConnectionError"

====
